---------------------------- MODULE Spec2Model ----------------------------
(***************************************************************************)
(* A model of src/src/x11_clipboard_monitor.rs: X11ClipboardMonitor::new   *)
(* and X11ClipboardMonitor::next_clipboard_string, together with the part  *)
(* of the X server and of the other X clients the two functions talk to    *)
(* (the connection's event queue, the CLIPBOARD selection and its owner,   *)
(* the receiver window and its CLIPBOARD_RECEIVER property).               *)
(*                                                                         *)
(* One step of the model is one request/reply round trip or one            *)
(* wait_for_event of the code; the server, the selection owner and other   *)
(* clients act between the steps.                                          *)
(***************************************************************************)
EXTENDS Integers, Sequences, FiniteSets, TLC

(***************************************************************************)
(* Bounds of the model.                                                    *)
(***************************************************************************)
\* ownership changes of the CLIPBOARD selection the server announces
MaxChanges == 2
\* calls of next_clipboard_string a thread makes
MaxCalls == 2
\* events the session did not ask for: events of other kinds, and
\* SelectionNotify events other clients send to the receiver window unasked
MaxStray == 2
\* longest byte string an owner deposits (SpecDecode)
MaxLen == 3

(***************************************************************************)
(* Atoms.  AtomEnum::NONE is 0; the four named atoms are whatever the      *)
(* server's InternAtom answers (pairwise distinct, above the predefined    *)
(* atoms).                                                                 *)
(***************************************************************************)
AtomNone == 0

AtomNames == <<"CLIPBOARD", "UTF8_STRING", "CLIPBOARD_RECEIVER", "INCR">>

InternAtom(name) ==
    CASE name = "CLIPBOARD"          -> 70
      [] name = "UTF8_STRING"        -> 71
      [] name = "CLIPBOARD_RECEIVER" -> 72
      [] name = "INCR"               -> 73

\* the Atoms struct before new() has filled it, and as new() fills it
NoAtoms == [clipboard |-> 0, utf8_string |-> 0, receiver_property |-> 0, incr |-> 0]

Atoms ==
    [clipboard         |-> InternAtom(AtomNames[1]),
     utf8_string       |-> InternAtom(AtomNames[2]),
     receiver_property |-> InternAtom(AtomNames[3]),
     incr              |-> InternAtom(AtomNames[4])]

\* the id connection.generate_id() hands out for the receiver window
GeneratedId == 5

Threads == {1, 2}

(***************************************************************************)
(* Bytes and text.  A String is modelled by its chars (Unicode scalar      *)
(* values); str::from_utf8 validates and decodes, EncodeUtf8 is            *)
(* String::as_bytes.                                                       *)
(***************************************************************************)
\* 'h'; the continuation bytes 80 and A0 (ED A0 is a surrogate and ED 80 is
\* not); the 2-byte lead C3; the 3-byte lead ED
ByteSet == {104, 128, 160, 195, 237}

RECURSIVE SeqsUpTo(_, _)
SeqsUpTo(S, n) ==
    IF n = 0 THEN {<<>>}
    ELSE LET shorter == SeqsUpTo(S, n - 1)
         IN  shorter \cup {Append(s, x) : s \in {q \in shorter : Len(q) = n - 1}, x \in S}

\* "hello", the scenario of the specification
Hello == <<104, 101, 108, 108, 111>>

\* byte strings outside ByteSet: "hello"; U+1F600 (4 bytes); U+0800, the
\* first char of 3 bytes, and the overlong E0 80 80; the overlong C0 80;
\* F4 90 80 80, beyond U+10FFFF
ExtraPayloads ==
    {Hello, <<240, 159, 152, 128>>, <<224, 160, 128>>, <<224, 128, 128>>,
     <<192, 128>>, <<244, 144, 128, 128>>}

Payloads == SeqsUpTo(ByteSet, MaxLen) \cup ExtraPayloads

\* the payloads of the full-environment specification: nothing, "hi", and a
\* lone continuation byte
SmallPayloads == {<<>>, <<104, 105>>, <<128>>}

IsCont(b) == b >= 128 /\ b <= 191

\* core::str::from_utf8 (run_utf8_validation): the width of the sequence
\* starting at b[i], 0 when it is ill-formed
Utf8Width(b, i) ==
    LET first == b[i]
        n     == Len(b)
        nth(k) == IF i + k <= n THEN b[i + k] ELSE 0
    IN  IF first < 128 THEN 1
        ELSE IF first >= 194 /\ first <= 223
             THEN IF IsCont(nth(1)) THEN 2 ELSE 0
        ELSE IF first >= 224 /\ first <= 239
             THEN IF /\ \/ first = 224 /\ nth(1) >= 160 /\ nth(1) <= 191
                        \/ first >= 225 /\ first <= 236 /\ IsCont(nth(1))
                        \/ first = 237 /\ nth(1) >= 128 /\ nth(1) <= 159
                        \/ first >= 238 /\ IsCont(nth(1))
                     /\ IsCont(nth(2))
                  THEN 3 ELSE 0
        ELSE IF first >= 240 /\ first <= 244
             THEN IF /\ \/ first = 240 /\ nth(1) >= 144 /\ nth(1) <= 191
                        \/ first >= 241 /\ first <= 243 /\ IsCont(nth(1))
                        \/ first = 244 /\ nth(1) >= 128 /\ nth(1) <= 143
                     /\ IsCont(nth(2))
                     /\ IsCont(nth(3))
                  THEN 4 ELSE 0
        ELSE 0

\* the char a well-formed sequence of width w at b[i] encodes
Utf8Char(b, i, w) ==
    CASE w = 1 -> b[i]
      [] w = 2 -> (b[i] - 192) * 64 + (b[i + 1] - 128)
      [] w = 3 -> (b[i] - 224) * 4096 + (b[i + 1] - 128) * 64 + (b[i + 2] - 128)
      [] w = 4 -> (b[i] - 240) * 262144 + (b[i + 1] - 128) * 4096
                  + (b[i + 2] - 128) * 64 + (b[i + 3] - 128)

RECURSIVE Utf8From(_, _, _)
Utf8From(b, i, acc) ==
    IF i > Len(b) THEN [ok |-> TRUE, text |-> acc]
    ELSE LET w == Utf8Width(b, i)
         IN  IF w = 0 THEN [ok |-> FALSE, text |-> <<>>]
             ELSE Utf8From(b, i + w, Append(acc, Utf8Char(b, i, w)))

from_utf8(b) == Utf8From(b, 1, <<>>)

\* char::encode_utf8
EncodeChar(c) ==
    IF c < 128 THEN <<c>>
    ELSE IF c < 2048 THEN <<192 + (c \div 64), 128 + (c % 64)>>
    ELSE IF c < 65536
         THEN <<224 + (c \div 4096), 128 + ((c \div 64) % 64), 128 + (c % 64)>>
    ELSE <<240 + (c \div 262144), 128 + ((c \div 4096) % 64),
           128 + ((c \div 64) % 64), 128 + (c % 64)>>

RECURSIVE EncodeUtf8(_)
EncodeUtf8(text) ==
    IF text = <<>> THEN <<>>
    ELSE EncodeChar(Head(text)) \o EncodeUtf8(Tail(text))

(***************************************************************************)
(* State.                                                                  *)
(***************************************************************************)
VARIABLES
    \* X11ClipboardMonitor::new
    session,                  \* "none" | "Ok" | "Err" | "panic": what new() did
    new_failure,              \* the step of new() that failed ("none": no step)
    receiver_window,          \* Self.receiver_window
    atoms,                    \* Self.atoms
    \* Self.connection and the server behind it
    conn,                     \* the connection is alive
    queue,                    \* events delivered and not yet taken by wait_for_event
    window,                   \* the receiver window exists at the server
    owner,                    \* the owner of CLIPBOARD: 0 (None) or a client
    clock,                    \* the server time of the last ownership change
    pending,                  \* SelectionRequests the owner has not answered
    prop,                     \* the receiver window's CLIPBOARD_RECEIVER property
    \* next_clipboard_string, per calling thread
    pc,                       \* where the call stands
    clipboard_changed_event,  \* the local of line 78
    conversion_property,      \* the local of line 117
    result,                   \* what the call returned
    \* bookkeeping of the environment's budget and of what happened
    callsLeft, strayLeft,
    reqSeq,                   \* conversion requests issued so far
    handled,                  \* timestamps of the changes that ended a first wait
    hist                      \* per thread: what the current call did and saw

vars == <<session, new_failure, receiver_window, atoms, conn, queue, window, owner, clock,
          pending, prop, pc, clipboard_changed_event, conversion_property,
          result, callsLeft, strayLeft, reqSeq, handled, hist>>

sessionVars == <<session, new_failure, receiver_window, atoms>>
serverVars  == <<conn, queue, window, owner, clock, pending, prop>>
callVars    == <<pc, clipboard_changed_event, conversion_property, result,
                 reqSeq, handled, hist>>
budgetVars  == <<callsLeft, strayLeft>>

(***************************************************************************)
(* Events (x11rb::protocol::Event).  All are records of one shape; req is  *)
(* bookkeeping: the conversion request a SelectionNotify answers (0: none).*)
(***************************************************************************)
Event(kind, selection, time, requestor, target, property, req) ==
    [kind |-> kind, selection |-> selection, time |-> time,
     requestor |-> requestor, target |-> target, property |-> property,
     req |-> req]

NoEvent == Event("none", 0, 0, 0, 0, 0, 0)

\* XFixes SelectionNotify: the selection and the timestamp of the change
XfixesSelectionNotify(selection, timestamp) ==
    Event("XfixesSelectionNotify", selection, timestamp, 0, 0, 0, 0)

\* the core protocol's SelectionNotify, the answer to ConvertSelection
SelectionNotify(r, property) ==
    Event("SelectionNotify", r.selection, r.time, r.requestor, r.target,
          property, r.req)

\* an event of a kind neither wait looks for
OtherEvent(kind) == Event(kind, 0, 0, 0, 0, 0, 0)

NoiseKinds == {"MappingNotify"}

\* the property as the server holds it; req is bookkeeping: the conversion
\* request it was deposited for
NoProperty == [present |-> FALSE, type |-> 0, value |-> <<>>, req |-> 0]

\* the reply to GetProperty(delete = false, type = ANY, long_offset,
\* long_length): both lengths count 4-byte units
GetProperty(p, long_offset, long_length) ==
    IF ~p.present
    THEN [type |-> AtomNone, bytes_after |-> 0, value |-> <<>>]
    ELSE LET n == Len(p.value)
             i == 4 * long_offset
             t == n - i
             l == IF t < 4 * long_length THEN t ELSE 4 * long_length
         IN  [type        |-> p.type,
              bytes_after |-> n - (i + l),
              value       |-> SubSeq(p.value, i + 1, i + l)]

NoReply == [type |-> AtomNone, bytes_after |-> 0, value |-> <<>>]

\* Result<String, Box<dyn Error>>
Ok(text)  == [kind |-> "Ok", text |-> text]
Err(kind) == [kind |-> kind, text |-> <<>>]
NoResult  == [kind |-> "none", text |-> <<>>]

\* the variants of X11ClipboardMonitorError, and the errors of the libraries
\* that `?` passes on
MonitorErrors == {"ConversionFailed", "IncrUnsupported", "SelectionOrphaned"}
Recoverable == MonitorErrors \cup {"Utf8Error"}
ErrorKinds == MonitorErrors \cup {"Utf8Error", "ConnectionError", "X11Error"}

\* retry: the thread's call before this one failed with an error the caller
\* may call again after
NoHist ==
    [owner_queries |-> 0, conversions |-> 0, probes |-> 0, reads |-> 0,
     owner_seen |-> -1, req |-> 0, noise1 |-> 0,
     reply |-> NoEvent, deposited |-> <<>>, deposited_for |-> 0,
     value |-> <<>>, retry |-> FALSE]

Init ==
    /\ session = "none"
    /\ new_failure = "none"
    /\ receiver_window = 0
    /\ atoms = NoAtoms
    /\ conn = FALSE
    /\ queue = <<>>
    /\ window = FALSE
    /\ owner \in {0, 1}
    /\ clock = 0
    /\ pending = {}
    /\ prop = NoProperty
    /\ pc = [t \in Threads |-> "idle"]
    /\ clipboard_changed_event = [t \in Threads |-> NoEvent]
    /\ conversion_property = [t \in Threads |-> NoReply]
    /\ result = [t \in Threads |-> NoResult]
    /\ callsLeft = [t \in Threads |-> IF t = 1 THEN MaxCalls ELSE 0]
    /\ strayLeft = MaxStray
    /\ reqSeq = 0
    /\ handled = {}
    /\ hist = [t \in Threads |-> NoHist]

(***************************************************************************)
(* X11ClipboardMonitor::new (lines 38-75).  Nothing runs beside it that    *)
(* it could interleave with, so it is one step; `fail` is the request that *)
(* fails, if any.                                                          *)
(***************************************************************************)
NewSteps ==
    {"connect", "generate_id", "create_window", "create_window_rejected",
     "intern_atom_CLIPBOARD", "intern_atom_UTF8_STRING",
     "intern_atom_CLIPBOARD_RECEIVER", "intern_atom_INCR",
     "xfixes_query_version", "xfixes_select_selection_input", "flush"}

\* what new() does when step `fail` fails:
\*   connect ...  .unwrap()        panics (line 39)
\*   create_window is sent with `?` and its cookie is dropped unchecked: only
\*   a failure to send is returned; the server's refusal arrives later as an
\*   Error event (lines 43-55)
\*   every other step ends in `?`
NewOutcome(fail) ==
    CASE fail = "connect"                -> "panic"
      [] fail = "create_window_rejected" -> "Ok"
      [] fail = "none"                   -> "Ok"
      [] OTHER                           -> "Err"

New ==
    /\ session = "none"
    /\ \E fail \in NewSteps \cup {"none"} :
          /\ new_failure' = fail
          /\ session' = NewOutcome(fail)
          /\ IF NewOutcome(fail) = "Ok"
             THEN /\ receiver_window' = GeneratedId
                  /\ atoms' = Atoms
                  /\ conn' = TRUE
                  /\ window' = (fail # "create_window_rejected")
                  /\ queue' = IF fail = "create_window_rejected"
                              THEN <<OtherEvent("Error")>> ELSE <<>>
             ELSE UNCHANGED <<receiver_window, atoms, conn, window, queue>>
    /\ UNCHANGED <<owner, clock, pending, prop>>
    /\ UNCHANGED callVars
    /\ UNCHANGED budgetVars

(***************************************************************************)
(* X11ClipboardMonitor::next_clipboard_string (lines 77-141).              *)
(***************************************************************************)
\* a variant of Return that tries the conversion again when it was refused
Return_Retry(t, r) ==
    /\ result' = [result EXCEPT ![t] = r]
    /\ pc' = [pc EXCEPT ![t] = IF r.kind = "ConversionFailed" THEN "convert" ELSE "done"]

\* `return Err(..)`, `?` and the final Ok(..): the call ends with result r
Return(t, r) ==
    /\ result' = [result EXCEPT ![t] = r]
    /\ pc' = [pc EXCEPT ![t] = "done"]

Note(t, field, value) == hist' = [hist EXCEPT ![t][field] = value]

\* a variant of the call that makes itself a new receiver window
Call_NewWindow(t) ==
    /\ session = "Ok"
    /\ pc[t] \in {"idle", "done"}
    /\ callsLeft[t] > 0
    /\ callsLeft' = [callsLeft EXCEPT ![t] = @ - 1]
    /\ pc' = [pc EXCEPT ![t] = "wait1"]
    /\ clipboard_changed_event' = [clipboard_changed_event EXCEPT ![t] = NoEvent]
    /\ conversion_property' = [conversion_property EXCEPT ![t] = NoReply]
    /\ result' = [result EXCEPT ![t] = NoResult]
    /\ hist' = [hist EXCEPT ![t] = NoHist]
    /\ receiver_window' = receiver_window + 1
    /\ UNCHANGED <<session, new_failure, atoms>>
    /\ UNCHANGED <<reqSeq, handled, strayLeft>>
    /\ UNCHANGED serverVars

\* the caller enters next_clipboard_string
Call(t) ==
    /\ session = "Ok"
    /\ pc[t] \in {"idle", "done"}
    /\ callsLeft[t] > 0
    /\ callsLeft' = [callsLeft EXCEPT ![t] = @ - 1]
    /\ pc' = [pc EXCEPT ![t] = "wait1"]
    /\ clipboard_changed_event' = [clipboard_changed_event EXCEPT ![t] = NoEvent]
    /\ conversion_property' = [conversion_property EXCEPT ![t] = NoReply]
    /\ result' = [result EXCEPT ![t] = NoResult]
    /\ hist' = [hist EXCEPT ![t] = [NoHist EXCEPT !.retry = (result[t].kind \in Recoverable)]]
    /\ UNCHANGED <<reqSeq, handled, strayLeft>>
    /\ UNCHANGED sessionVars
    /\ UNCHANGED serverVars

\* a variant of the arm of line 82 that also takes the core SelectionNotify
IsClipboardChanged_AnyNotify(e) ==
    e.kind \in {"XfixesSelectionNotify", "SelectionNotify"}

\* a variant of wait_for_event that gives up when nothing is queued
WaitFails_Timeout == TRUE

\* wait_for_event()? of lines 81 and 105, with nothing queued: it blocks
\* while the connection is up, and returns the error when it is broken
WaitFails == ~conn

\* the arm of line 82
IsClipboardChanged(e) == e.kind = "XfixesSelectionNotify"

\* lines 80-88: loop { match wait_for_event()? { XfixesSelectionNotify => break, _ => () } }
WaitForChange(t) ==
    /\ pc[t] = "wait1"
    /\ \/ /\ queue # <<>>
          /\ queue' = Tail(queue)
          /\ IF IsClipboardChanged(Head(queue))
             THEN /\ clipboard_changed_event' =
                        [clipboard_changed_event EXCEPT ![t] = Head(queue)]
                  /\ pc' = [pc EXCEPT ![t] = "get_owner"]
                  /\ handled' = handled \cup {Head(queue).time}
                  /\ UNCHANGED <<result, hist>>
             ELSE /\ Note(t, "noise1", hist[t].noise1 + 1)
                  /\ UNCHANGED <<pc, clipboard_changed_event, result, handled>>
       \/ /\ queue = <<>>
          /\ WaitFails
          /\ Return(t, Err("ConnectionError"))
          /\ UNCHANGED <<queue, clipboard_changed_event, handled, hist>>
    /\ UNCHANGED <<conversion_property, reqSeq>>
    /\ UNCHANGED <<conn, window, owner, clock, pending, prop>>
    /\ UNCHANGED sessionVars
    /\ UNCHANGED budgetVars

\* lines 90-92: .reply().map_err(|_| SelectionOrphaned)?  The reply's owner
\* field is not looked at: the query fails only when the reply is an error.
OwnerQueryFails(replyOk, replyOwner) == ~replyOk

GetSelectionOwner(t) ==
    /\ pc[t] = "get_owner"
    /\ \/ /\ conn
          /\ hist' = [hist EXCEPT ![t].owner_queries = @ + 1,
                                  ![t].owner_seen = owner]
          /\ IF OwnerQueryFails(TRUE, owner)
             THEN Return(t, Err("SelectionOrphaned"))
             ELSE /\ pc' = [pc EXCEPT ![t] = "convert"]
                  /\ UNCHANGED result
       \/ \* the request cannot be sent: `?` of line 90
          /\ ~conn
          /\ Return(t, Err("ConnectionError"))
          /\ UNCHANGED hist
       \/ \* the request is buffered and the reply fails: map_err of line 92
          /\ ~conn
          /\ Note(t, "owner_queries", hist[t].owner_queries + 1)
          /\ IF OwnerQueryFails(FALSE, 0)
             THEN Return(t, Err("SelectionOrphaned"))
             ELSE /\ pc' = [pc EXCEPT ![t] = "convert"]
                  /\ UNCHANGED result
    /\ UNCHANGED <<clipboard_changed_event, conversion_property, reqSeq, handled>>
    /\ UNCHANGED serverVars
    /\ UNCHANGED sessionVars
    /\ UNCHANGED budgetVars

\* a variant of lines 94-100 that asks with CurrentTime instead of the
\* event's timestamp
ConversionRequest_CurrentTime(t, id) ==
    [req       |-> id,
     requestor |-> receiver_window,
     selection |-> clipboard_changed_event[t].selection,
     target    |-> atoms.utf8_string,
     property  |-> atoms.receiver_property,
     time      |-> 0]

\* the ConvertSelection request of lines 94-100
ConversionRequest(t, id) ==
    [req       |-> id,
     requestor |-> receiver_window,
     selection |-> clipboard_changed_event[t].selection,
     target    |-> atoms.utf8_string,
     property  |-> atoms.receiver_property,
     time      |-> clipboard_changed_event[t].time]

\* lines 94-102: convert_selection(...)?.check()?; flush()?.  The server
\* passes the request to the owner, or answers SelectionNotify(None) itself
\* when the selection has no owner; a request naming no window is an error.
ConvertSelection(t) ==
    /\ pc[t] = "convert"
    /\ \/ /\ conn
          /\ window
          /\ reqSeq' = reqSeq + 1
          /\ hist' = [hist EXCEPT ![t].conversions = @ + 1,
                                  ![t].req = reqSeq + 1]
          /\ IF owner = 0
             THEN /\ queue' = Append(queue,
                        SelectionNotify(ConversionRequest(t, reqSeq + 1), AtomNone))
                  /\ UNCHANGED pending
             ELSE /\ pending' = pending \cup {ConversionRequest(t, reqSeq + 1)}
                  /\ UNCHANGED queue
          /\ pc' = [pc EXCEPT ![t] = "wait2"]
          /\ UNCHANGED result
       \/ /\ conn
          /\ ~window
          /\ Note(t, "conversions", hist[t].conversions + 1)
          /\ Return(t, Err("X11Error"))
          /\ UNCHANGED <<reqSeq, queue, pending>>
       \/ /\ ~conn
          /\ Return(t, Err("ConnectionError"))
          /\ UNCHANGED <<reqSeq, queue, pending, hist>>
    /\ UNCHANGED <<clipboard_changed_event, conversion_property, handled>>
    /\ UNCHANGED <<conn, window, owner, clock, prop>>
    /\ UNCHANGED sessionVars
    /\ UNCHANGED budgetVars

\* a variant of the second wait that ends on whatever event comes first
IsSelectionNotify_AnyEvent(e) == TRUE

\* a variant of the arm of line 106 that takes only an event about the
\* selection the call asked for
IsSelectionNotify_OfClipboard(e) ==
    e.kind = "SelectionNotify" /\ e.selection = atoms.clipboard

\* the arm of line 106
IsSelectionNotify(e) == e.kind = "SelectionNotify"

\* a variant of line 107 that tests the event's target instead of its property
ConversionRefused_Target(e) == e.target = AtomNone

\* line 107
ConversionRefused(e) == e.property = AtomNone

\* lines 104-115
WaitForReply(t) ==
    /\ pc[t] = "wait2"
    /\ \/ /\ queue # <<>>
          /\ queue' = Tail(queue)
          /\ IF IsSelectionNotify(Head(queue))
             THEN /\ Note(t, "reply", Head(queue))
                  /\ IF ConversionRefused(Head(queue))
                     THEN Return(t, Err("ConversionFailed"))
                     ELSE /\ pc' = [pc EXCEPT ![t] = "probe"]
                          /\ UNCHANGED result
             ELSE UNCHANGED <<pc, result, hist>>
       \/ /\ queue = <<>>
          /\ WaitFails
          /\ Return(t, Err("ConnectionError"))
          /\ UNCHANGED <<queue, hist>>
    /\ UNCHANGED <<clipboard_changed_event, conversion_property, reqSeq, handled>>
    /\ UNCHANGED <<conn, window, owner, clock, pending, prop>>
    /\ UNCHANGED sessionVars
    /\ UNCHANGED budgetVars

\* a variant of line 127 that compares with the wrong atom of Self.atoms
IsIncr_Utf8(reply) == reply.type = atoms.utf8_string

\* line 127
IsIncr(reply) == reply.type = atoms.incr

\* lines 117-129: get_property(false, window, property, ANY, 0, 0), then the
\* INCR test
ProbeProperty(t) ==
    /\ pc[t] = "probe"
    /\ \/ /\ conn
          /\ conversion_property' =
                [conversion_property EXCEPT ![t] = GetProperty(prop, 0, 0)]
          /\ Note(t, "probes", hist[t].probes + 1)
          /\ IF IsIncr(GetProperty(prop, 0, 0))
             THEN Return(t, Err("IncrUnsupported"))
             ELSE /\ pc' = [pc EXCEPT ![t] = "read"]
                  /\ UNCHANGED result
       \/ /\ ~conn
          /\ Return(t, Err("ConnectionError"))
          /\ UNCHANGED <<conversion_property, hist>>
    /\ UNCHANGED <<clipboard_changed_event, reqSeq, handled>>
    /\ UNCHANGED serverVars
    /\ UNCHANGED sessionVars
    /\ UNCHANGED budgetVars

\* a variant of line 137 that converts the byte count to 4-byte units,
\* rounding down
ReadLength_Words(reply) == reply.bytes_after \div 4

\* a variant of line 137 that asks with the probe's length again
ReadLength_Zero(reply) == 0

\* line 137: the long_length of the second get_property
ReadLength(reply) == reply.bytes_after

\* a variant of line 140 that decodes as String::from_utf8_lossy does
Decode_Lossy(value) ==
    IF from_utf8(value).ok THEN Ok(from_utf8(value).text) ELSE Ok(<<65533>>)

\* line 140: Ok(str::from_utf8(&value)?.into())
Decode(value) ==
    IF from_utf8(value).ok THEN Ok(from_utf8(value).text) ELSE Err("Utf8Error")

\* a variant of lines 131-140 that reads with delete = true
ReadProperty_Delete(t) ==
    /\ pc[t] = "read"
    /\ conn
    /\ hist' = [hist EXCEPT ![t].reads = @ + 1,
                            ![t].deposited = prop.value,
                            ![t].deposited_for = prop.req,
                            ![t].value = GetProperty(prop, 0,
                                ReadLength(conversion_property[t])).value]
    /\ Return(t, Decode(GetProperty(prop, 0,
                           ReadLength(conversion_property[t])).value))
    /\ prop' = NoProperty
    /\ UNCHANGED <<clipboard_changed_event, conversion_property, reqSeq, handled>>
    /\ UNCHANGED <<conn, queue, window, owner, clock, pending>>
    /\ UNCHANGED sessionVars
    /\ UNCHANGED budgetVars

\* lines 131-140
ReadProperty(t) ==
    /\ pc[t] = "read"
    /\ \/ /\ conn
          /\ hist' = [hist EXCEPT ![t].reads = @ + 1,
                                  ![t].deposited = prop.value,
                                  ![t].deposited_for = prop.req,
                                  ![t].value = GetProperty(prop, 0,
                                      ReadLength(conversion_property[t])).value]
          /\ Return(t, Decode(GetProperty(prop, 0,
                                 ReadLength(conversion_property[t])).value))
       \/ /\ ~conn
          /\ Return(t, Err("ConnectionError"))
          /\ UNCHANGED hist
    /\ UNCHANGED <<clipboard_changed_event, conversion_property, reqSeq, handled>>
    /\ UNCHANGED serverVars
    /\ UNCHANGED sessionVars
    /\ UNCHANGED budgetVars

(***************************************************************************)
(* The server, the selection's owner and the other clients.  They act      *)
(* only on a session new() returned: line 66 asks for the XFixes events of *)
(* CLIPBOARD with mask 1 (SET_SELECTION_OWNER), so a change of owner is    *)
(* announced and the owner's exit is not.                                  *)
(***************************************************************************)
\* a client takes the selection: the server announces it (wait of line 81)
SetSelectionOwner ==
    /\ session = "Ok"
    /\ conn
    /\ clock < MaxChanges
    /\ clock' = clock + 1
    /\ owner' = 1
    /\ queue' = Append(queue, XfixesSelectionNotify(atoms.clipboard, clock + 1))
    /\ UNCHANGED <<conn, window, pending, prop>>
    /\ UNCHANGED sessionVars
    /\ UNCHANGED callVars
    /\ UNCHANGED budgetVars

\* the owner exits: the selection has no owner and what it was asked is
\* never answered (owner query of line 90, wait of line 105)
OwnerExits ==
    /\ session = "Ok"
    /\ owner # 0
    /\ owner' = 0
    /\ pending' = {}
    /\ UNCHANGED <<conn, queue, window, clock, prop>>
    /\ UNCHANGED sessionVars
    /\ UNCHANGED callVars
    /\ UNCHANGED budgetVars

\* the owner answers request r: it writes `value` of type `type` to the
\* requestor's property and sends SelectionNotify naming the property
OwnerDeposits(r, type, value) ==
    /\ conn
    /\ r \in pending
    /\ pending' = pending \ {r}
    /\ prop' = [present |-> TRUE, type |-> type, value |-> value, req |-> r.req]
    /\ queue' = Append(queue, SelectionNotify(r, r.property))
    /\ UNCHANGED <<conn, window, owner, clock>>
    /\ UNCHANGED sessionVars
    /\ UNCHANGED callVars
    /\ UNCHANGED budgetVars

\* the owner starts an INCR transfer: the property holds the size, type INCR
IncrSize == <<0, 0, 16, 0>>

\* the owner refuses request r: SelectionNotify with property None
OwnerRefuses(r) ==
    /\ conn
    /\ r \in pending
    /\ pending' = pending \ {r}
    /\ queue' = Append(queue, SelectionNotify(r, AtomNone))
    /\ UNCHANGED <<conn, window, owner, clock, prop>>
    /\ UNCHANGED sessionVars
    /\ UNCHANGED callVars
    /\ UNCHANGED budgetVars

\* an event of another kind arrives
Noise ==
    /\ session = "Ok"
    /\ conn
    /\ strayLeft > 0
    /\ strayLeft' = strayLeft - 1
    /\ \E k \in NoiseKinds : queue' = Append(queue, OtherEvent(k))
    /\ UNCHANGED <<conn, window, owner, clock, pending, prop>>
    /\ UNCHANGED callsLeft
    /\ UNCHANGED sessionVars
    /\ UNCHANGED callVars

\* another client sends (SendEvent) a SelectionNotify to the receiver window
\* that answers no request of this session: selection PRIMARY (1), target
\* STRING (31), time CurrentTime (0)
ForeignSelectionNotify ==
    /\ session = "Ok"
    /\ conn
    /\ window
    /\ strayLeft > 0
    /\ strayLeft' = strayLeft - 1
    /\ \E p \in {atoms.receiver_property, AtomNone} :
          queue' = Append(queue,
                     Event("SelectionNotify", 1, 0, receiver_window, 31, p, 0))
    /\ UNCHANGED <<conn, window, owner, clock, pending, prop>>
    /\ UNCHANGED callsLeft
    /\ UNCHANGED sessionVars
    /\ UNCHANGED callVars

\* the connection breaks
ConnectionLost ==
    /\ session = "Ok"
    /\ conn
    /\ conn' = FALSE
    /\ UNCHANGED <<queue, window, owner, clock, pending, prop>>
    /\ UNCHANGED sessionVars
    /\ UNCHANGED callVars
    /\ UNCHANGED budgetVars

OwnerAnswers ==
    \E r \in pending :
        \/ \E v \in SmallPayloads : OwnerDeposits(r, r.target, v)
        \/ OwnerDeposits(r, InternAtom("INCR"), IncrSize)
        \/ OwnerRefuses(r)

Next ==
    \/ New
    \/ \E t \in Threads : Call(t)
    \/ \E t \in Threads : WaitForChange(t)
    \/ \E t \in Threads : GetSelectionOwner(t)
    \/ \E t \in Threads : ConvertSelection(t)
    \/ \E t \in Threads : WaitForReply(t)
    \/ \E t \in Threads : ProbeProperty(t)
    \/ \E t \in Threads : ReadProperty(t)
    \/ SetSelectionOwner
    \/ OwnerExits
    \/ OwnerAnswers
    \/ Noise
    \/ ForeignSelectionNotify
    \/ ConnectionLost

Spec == Init /\ [][Next]_vars

\* one step of the call of thread t, lines 77-141
CallStep(t) ==
    \/ WaitForChange(t)
    \/ GetSelectionOwner(t)
    \/ ConvertSelection(t)
    \/ WaitForReply(t)
    \/ ProbeProperty(t)
    \/ ReadProperty(t)

\* The thread that called next_clipboard_string keeps running: the step its
\* call is at is taken when it can be.  Nothing is assumed of the caller,
\* the server, the owner or the other clients.
CallRuns(t) == WF_vars(CallStep(t))

\* The steps of Next without the SelectionNotify events of other clients:
\* the only SelectionNotify a call can take is an answer to a request.
NextLive ==
    \/ New
    \/ \E t \in Threads : Call(t)
    \/ \E t \in Threads : CallStep(t)
    \/ SetSelectionOwner
    \/ OwnerExits
    \/ OwnerAnswers
    \/ Noise
    \/ ConnectionLost

SpecLive == Init /\ [][NextLive]_vars /\ \A t \in Threads : CallRuns(t)

(***************************************************************************)
(* SpecDecode: one well-behaved owner that answers every request with a    *)
(* byte string of Payloads, on a connection that stays up.                 *)
(***************************************************************************)
OwnerDepositsText ==
    \E r \in pending : \E v \in Payloads : OwnerDeposits(r, r.target, v)

NextDecode ==
    \/ New
    \/ \E t \in Threads : Call(t)
    \/ \E t \in Threads : WaitForChange(t)
    \/ \E t \in Threads : GetSelectionOwner(t)
    \/ \E t \in Threads : ConvertSelection(t)
    \/ \E t \in Threads : WaitForReply(t)
    \/ \E t \in Threads : ProbeProperty(t)
    \/ \E t \in Threads : ReadProperty(t)
    \/ SetSelectionOwner
    \/ OwnerDepositsText

SpecDecode == Init /\ [][NextDecode]_vars

(***************************************************************************)
(* Two threads share one monitor: next_clipboard_string takes &self, and   *)
(* the struct's fields can be used from several threads.  Each thread      *)
(* calls once.                                                             *)
(***************************************************************************)
InitShared ==
    /\ session = "none"
    /\ new_failure = "none"
    /\ receiver_window = 0
    /\ atoms = NoAtoms
    /\ conn = FALSE
    /\ queue = <<>>
    /\ window = FALSE
    /\ owner \in {0, 1}
    /\ clock = 0
    /\ pending = {}
    /\ prop = NoProperty
    /\ pc = [t \in Threads |-> "idle"]
    /\ clipboard_changed_event = [t \in Threads |-> NoEvent]
    /\ conversion_property = [t \in Threads |-> NoReply]
    /\ result = [t \in Threads |-> NoResult]
    /\ callsLeft = [t \in Threads |-> 1]
    /\ strayLeft = MaxStray
    /\ reqSeq = 0
    /\ handled = {}
    /\ hist = [t \in Threads |-> NoHist]

\* the calls of the two threads interleave step by step
SpecShared == InitShared /\ [][Next]_vars

\* the caller holds a mutex for the whole call: a call is entered only
\* when no other thread is inside one
LockedCall(t) ==
    /\ \A u \in Threads \ {t} : pc[u] \in {"idle", "done"}
    /\ Call(t)

NextMutex ==
    \/ New
    \/ \E t \in Threads : LockedCall(t)
    \/ \E t \in Threads : CallStep(t)
    \/ SetSelectionOwner
    \/ OwnerExits
    \/ OwnerAnswers
    \/ Noise
    \/ ForeignSelectionNotify
    \/ ConnectionLost

SpecMutex == InitShared /\ [][NextMutex]_vars

(***************************************************************************)
(* Properties.                                                             *)
(***************************************************************************)
Done(t) == pc[t] = "done"

\* C1: if the owner query of a call reports that the selection has no
\* owner, the call fails with SelectionOrphaned and issues no conversion
\* request.
C1_OrphanedWhenNoOwner ==
    \A t \in Threads :
        hist[t].owner_seen = 0 =>
            /\ hist[t].conversions = 0
            /\ Done(t) => result[t] = Err("SelectionOrphaned")

\* C2: an event of any other kind taken by the first wait is discarded: the
\* call stays in the wait, returns nothing, and neither its locals nor the
\* server's state change, so the call goes on exactly as if the event had
\* never been delivered.
C2_FirstWaitDiscardsNoise ==
    [][\A t \in Threads :
          ( /\ pc[t] = "wait1"
            /\ queue # <<>>
            /\ Head(queue).kind # "XfixesSelectionNotify"
            /\ queue' = Tail(queue) )
          => /\ pc'[t] = "wait1"
             /\ result'[t] = NoResult
             /\ clipboard_changed_event'[t] = clipboard_changed_event[t]
             /\ conversion_property'[t] = conversion_property[t]
             /\ hist'[t] = [hist[t] EXCEPT !.noise1 = @ + 1]
             /\ UNCHANGED <<conn, window, owner, clock, pending, prop, handled>>
      ]_vars

\* a call that discarded two events in its first wait and returned text
C2_Witness ==
    \E t \in Threads :
        Done(t) /\ result[t].kind = "Ok" /\ hist[t].noise1 >= 2

\* C3: no announced ownership change is dropped: each is still in the
\* queue for a later call, or has ended the first wait of a call.
C3_EveryChangeRetrieved ==
    \A ts \in 1..clock :
        \/ ts \in handled
        \/ \E i \in DOMAIN queue :
              queue[i].kind = "XfixesSelectionNotify" /\ queue[i].time = ts

\* the event answers the conversion request of thread t's call
AnswersRequestOf(e, t) ==
    /\ e.kind = "SelectionNotify"
    /\ e.req = hist[t].req
    /\ e.requestor = receiver_window
    /\ e.selection = clipboard_changed_event[t].selection
    /\ e.target = atoms.utf8_string
    /\ e.time = clipboard_changed_event[t].time

\* C4: the reply property is probed or read only after the same call has
\* issued a conversion request and taken the SelectionNotify that answers
\* it, and what a call reads was deposited for its own request.
C4_ReadOnlyAfterMatchingReply ==
    \A t \in Threads :
        (hist[t].probes > 0 \/ hist[t].reads > 0)
        => /\ hist[t].conversions = 1
           /\ AnswersRequestOf(hist[t].reply, t)
           /\ hist[t].reads > 0 => hist[t].deposited_for = hist[t].req

\* C5: a reply whose property is None fails the call with ConversionFailed,
\* and the call neither probes nor reads the property.
C5_RefusedConversionFails ==
    \A t \in Threads :
        (hist[t].reply.kind = "SelectionNotify" /\ hist[t].reply.property = 0)
        => /\ Done(t)
           /\ result[t] = Err("ConversionFailed")
           /\ hist[t].probes = 0
           /\ hist[t].reads = 0

C5_Witness ==
    \E t \in Threads :
        /\ hist[t].reply.kind = "SelectionNotify"
        /\ hist[t].reply.property = 0
        /\ hist[t].reply.req = hist[t].req
        /\ Done(t)

\* C6: a probe that reports the type INCR fails the call with
\* IncrUnsupported, and the full read is not issued.
C6_IncrRejectedBeforeRead ==
    \A t \in Threads :
        (hist[t].probes > 0 /\ conversion_property[t].type = InternAtom("INCR"))
        => /\ Done(t)
           /\ result[t] = Err("IncrUnsupported")
           /\ hist[t].reads = 0

C6_Witness ==
    \E t \in Threads :
        /\ hist[t].probes > 0
        /\ conversion_property[t].type = InternAtom("INCR")
        /\ prop.value = IncrSize
        /\ Done(t)

\* Well-formed UTF-8, stated from the encoding: a byte string is well formed
\* when it is a concatenation of encodings of Unicode scalar values.
IsScalarValue(c) == (c >= 0 /\ c <= 55295) \/ (c >= 57344 /\ c <= 1114111)

\* the value the payload bits of s give, were s the encoding of one char
PayloadBits(s) ==
    CASE Len(s) = 1 -> s[1]
      [] Len(s) = 2 -> (s[1] % 32) * 64 + (s[2] % 64)
      [] Len(s) = 3 -> (s[1] % 16) * 4096 + (s[2] % 64) * 64 + (s[3] % 64)
      [] Len(s) = 4 -> (s[1] % 8) * 262144 + (s[2] % 64) * 4096
                       + (s[3] % 64) * 64 + (s[4] % 64)

EncodesScalar(s) ==
    IsScalarValue(PayloadBits(s)) /\ EncodeChar(PayloadBits(s)) = s

RECURSIVE WellFormedUtf8(_)
WellFormedUtf8(b) ==
    \/ b = <<>>
    \/ \E k \in 1..(IF Len(b) < 4 THEN Len(b) ELSE 4) :
          /\ EncodesScalar(SubSeq(b, 1, k))
          /\ WellFormedUtf8(SubSeq(b, k + 1, Len(b)))

\* the call of thread t has read the property on the path of the handshake:
\* the SelectionNotify it took answers its request, and the property held
\* what the owner deposited for that request
ReadOwnDeposit(t) ==
    /\ Done(t)
    /\ hist[t].reads = 1
    /\ AnswersRequestOf(hist[t].reply, t)
    /\ hist[t].deposited_for = hist[t].req

\* C7: when the bytes in the reply property are not valid UTF-8 the call
\* fails with the decode error, which is none of the protocol or transport
\* errors, and returns no text.
C7_InvalidUtf8Fails ==
    \A t \in Threads :
        (ReadOwnDeposit(t) /\ ~WellFormedUtf8(hist[t].deposited))
        => /\ result[t].kind = "Utf8Error"
           /\ result[t].kind \notin
                  MonitorErrors \cup {"ConnectionError", "X11Error", "Ok"}
           /\ result[t].text = <<>>

\* the surrogate ED A0 80 was deposited and the call failed to decode it
C7_Witness ==
    \E t \in Threads :
        /\ ReadOwnDeposit(t)
        /\ hist[t].deposited = <<237, 160, 128>>
        /\ result[t].kind = "Utf8Error"

\* C8: when the bytes the owner deposited are valid UTF-8 and the call
\* reached the read, it returns text whose encoding is exactly those bytes.
C8_ValidUtf8RoundTrip ==
    \A t \in Threads :
        (ReadOwnDeposit(t) /\ WellFormedUtf8(hist[t].deposited))
        => /\ result[t].kind = "Ok"
           /\ EncodeUtf8(result[t].text) = hist[t].deposited

\* the bytes 68 65 6c 6c 6f were deposited and the call returned "hello"
C8_Witness ==
    \E t \in Threads :
        /\ ReadOwnDeposit(t)
        /\ hist[t].deposited = Hello
        /\ result[t] = Ok(<<104, 101, 108, 108, 111>>)

\* C9: whatever step of new() fails, new() returns a construction error:
\* it neither panics nor returns a session.
C9_FailureIsConstructionError ==
    new_failure # "none" => session = "Err"

\* C10: a call issues each of its four requests at most once, and a call
\* that has an error to return has returned.
C10_NoRetry ==
    \A t \in Threads :
        /\ hist[t].owner_queries <= 1
        /\ hist[t].conversions <= 1
        /\ hist[t].probes <= 1
        /\ hist[t].reads <= 1
        /\ result[t].kind \in ErrorKinds => Done(t)

\* a second call that was refused the conversion after one request
C10_Witness ==
    \E t \in Threads :
        /\ Done(t)
        /\ result[t] = Err("ConversionFailed")
        /\ hist[t].conversions = 1
        /\ hist[t].req = 2

\* thread t took the answer to another call's request as its reply, or
\* read what was deposited for another call's request
TookAnothersReply(t) ==
    \/ /\ hist[t].reply.kind = "SelectionNotify"
       /\ hist[t].reply.req # 0
       /\ hist[t].reply.req # hist[t].req
    \/ /\ hist[t].reads > 0
       /\ hist[t].deposited_for # 0
       /\ hist[t].deposited_for # hist[t].req

\* C11: a call made after a call that failed with SelectionOrphaned,
\* ConversionFailed, IncrUnsupported or the decode error runs a handshake of
\* its own: the SelectionNotify it takes does not answer an earlier call's
\* request, and what it reads was not deposited for an earlier request.
C11_FreshAfterFailure ==
    \A t \in Threads : hist[t].retry => ~TookAnothersReply(t)

\* a call leaves the second wait only by taking a SelectionNotify
LeavesWaitOnReplyOnly ==
    [][\A t \in Threads :
          (pc[t] = "wait2" /\ pc'[t] # "wait2")
          => /\ queue # <<>>
             /\ Head(queue).kind = "SelectionNotify"
             /\ queue' = Tail(queue)
      ]_vars

\* C12 as stated: a call ends or stays in one of its two waits with nothing
\* to take, and it leaves the second wait only when a SelectionNotify has
\* been delivered.
C12_NeverReturnsWithoutReply ==
    /\ \A t \in Threads :
          \/ <>[](pc[t] \in {"idle", "done"})
          \/ <>[](pc[t] \in {"wait1", "wait2"} /\ queue = <<>>)
    /\ LeavesWaitOnReplyOnly

\* C12, amended: a call ends, or stays for ever in one of its two waits
\* with nothing queued on a connection that is up; it leaves the second
\* wait only by taking a SelectionNotify, or, when the connection is broken
\* and nothing is queued, by returning the transport error.
C12_BlocksOnlyInWaits ==
    /\ \A t \in Threads :
          \/ <>[](pc[t] \in {"idle", "done"})
          \/ <>[](pc[t] \in {"wait1", "wait2"} /\ queue = <<>> /\ conn)
    /\ [][\A t \in Threads :
            (pc[t] = "wait2" /\ pc'[t] # "wait2")
            => \/ /\ queue # <<>>
                  /\ Head(queue).kind = "SelectionNotify"
                  /\ queue' = Tail(queue)
               \/ /\ queue = <<>>
                  /\ ~conn
                  /\ result'[t] = Err("ConnectionError")
        ]_vars

\* the owner exited with the request unanswered: the call waits for a reply
\* nobody will send
C12_Witness ==
    \E t \in Threads :
        /\ pc[t] = "wait2"
        /\ hist[t].conversions = 1
        /\ queue = <<>>
        /\ pending = {}
        /\ owner = 0
        /\ conn

\* the SelectionNotify events in the queue that answer a request
QueuedAnswers ==
    { queue[i] : i \in { j \in DOMAIN queue : queue[j].kind = "SelectionNotify"
                                               /\ queue[j].req # 0 } }

\* C13: the conversion request of a call carries the selection and the
\* timestamp of the XFixes event that ended the call's first wait, asks for
\* UTF8_STRING, and names the hidden window and the reply property as the
\* destination.  The request is seen where it is: with the owner, or
\* repeated in the SelectionNotify that answers it.
C13_RequestCarriesEvent ==
    \A t \in Threads :
        pc[t] = "wait2"
        => /\ clipboard_changed_event[t].kind = "XfixesSelectionNotify"
           /\ clipboard_changed_event[t].time \in handled
           /\ \A r \in pending \cup QueuedAnswers :
                 r.req = hist[t].req
                 => /\ r.selection = clipboard_changed_event[t].selection
                    /\ r.time = clipboard_changed_event[t].time
                    /\ r.target = InternAtom("UTF8_STRING")
                    /\ r.requestor = GeneratedId
           /\ \A r \in pending :
                 r.req = hist[t].req
                 => r.property = InternAtom("CLIPBOARD_RECEIVER")

\* the request is out with the timestamp of the first change while a second
\* change has already been announced
C13_Witness ==
    \E t \in Threads : \E r \in pending :
        /\ pc[t] = "wait2"
        /\ r.req = hist[t].req
        /\ r.time = 1
        /\ clock = 2

\* C14: an event of any kind but SelectionNotify taken by the second wait
\* is discarded: the call stays in the wait and returns nothing, and
\* neither its locals, nor the reply property, nor the requests that are
\* out change, so what the call returns is decided by the SelectionNotify
\* it takes and the property it reads after it.
C14_SecondWaitDiscardsOthers ==
    [][\A t \in Threads :
          ( /\ pc[t] = "wait2"
            /\ queue # <<>>
            /\ Head(queue).kind # "SelectionNotify"
            /\ queue' = Tail(queue) )
          => /\ pc'[t] = "wait2"
             /\ result'[t] = NoResult
             /\ clipboard_changed_event'[t] = clipboard_changed_event[t]
             /\ conversion_property'[t] = conversion_property[t]
             /\ hist'[t] = hist[t]
             /\ UNCHANGED <<conn, window, owner, clock, pending, prop, handled>>
      ]_vars

\* the call took the first change in its first wait; the second change was
\* announced and is no longer queued: the second wait discarded it, and the
\* call is still waiting for the owner's answer
C14_Witness ==
    \E t \in Threads :
        /\ pc[t] = "wait2"
        /\ queue = <<>>
        /\ clock = 2
        /\ handled = {1}
        /\ \E r \in pending : r.req = hist[t].req

\* two unsynchronised calls: thread t took the answer to the other
\* thread's request while that thread is waiting for it
C15_CorruptedWhenShared ==
    \E t \in Threads : \E u \in Threads \ {t} :
        /\ TookAnothersReply(t)
        /\ pc[u] = "wait2"
        /\ hist[t].reply.req = hist[u].req

\* C15: with a mutex around each whole call, no call takes the conversion
\* reply of the other thread's call or reads the data deposited for it.
C15_MutexPreventsCorruption ==
    \A t \in Threads : ~TookAnothersReply(t)

\* C16: once new has returned the monitor, no step changes the receiver
\* window's id or any of the four atoms: after any sequence of calls they
\* are what new stored.
C16_SessionFieldsStable ==
    [][session = "Ok" => (receiver_window' = receiver_window /\ atoms' = atoms)]_vars

\* every call the thread makes is over, the last one returned text, and
\* the fields are those of new
C16_Witness ==
    \E t \in Threads :
        /\ Done(t)
        /\ callsLeft[t] = 0
        /\ result[t].kind = "Ok"
        /\ receiver_window = GeneratedId
        /\ atoms = Atoms

\* C17: when the property a call reads holds as many bytes as its probe
\* reported, as it does when nothing changed it in between, then the probe
\* was the call's only probe, returned no data and reported all the bytes
\* as remaining, the property is not of type INCR, and the call's only read
\* returned every byte of the property.
C17_ProbeThenOneFullRead ==
    \A t \in Threads :
        ( /\ hist[t].reads > 0
          /\ conversion_property[t].bytes_after = Len(hist[t].deposited) )
        => /\ hist[t].probes = 1
           /\ hist[t].reads = 1
           /\ conversion_property[t].value = <<>>
           /\ conversion_property[t].type # InternAtom("INCR")
           /\ hist[t].value = hist[t].deposited

\* a call returned the text of a property of two bytes, which is no
\* multiple of the 4-byte unit the read's length counts in
C17_Witness ==
    \E t \in Threads :
        /\ Done(t)
        /\ result[t].kind = "Ok"
        /\ hist[t].reads = 1
        /\ conversion_property[t].bytes_after = 2
        /\ Len(hist[t].deposited) = 2
        /\ hist[t].value = hist[t].deposited

\* C18: no step of next_clipboard_string writes or deletes the reply
\* property: the property changes only in a step in which the owner answers
\* a request that was with it, by the owner's deposit, and no call moves in
\* that step.
C18_OnlyOwnerWritesProperty ==
    [][prop' # prop
       => /\ \E r \in pending : pending' = pending \ {r} /\ prop'.req = r.req
          /\ prop'.present
          /\ UNCHANGED <<pc, result, hist, conversion_property>>
      ]_vars

\* a call has read the owner's deposit and returned its text, and the
\* property still holds every byte of it
C18_Witness ==
    \E t \in Threads :
        /\ Done(t)
        /\ result[t].kind = "Ok"
        /\ hist[t].reads = 1
        /\ hist[t].deposited # <<>>
        /\ prop.present
        /\ prop.req = hist[t].req
        /\ prop.value = hist[t].deposited

\* C19: the second wait ends on the first SelectionNotify it takes,
\* whatever the event's requestor, selection, target and timestamp are: if
\* the event's property is None the call returns ConversionFailed, otherwise
\* it goes on to probe the reply property.
C19_AnySelectionNotifyEndsWait ==
    [][\A t \in Threads :
          ( /\ pc[t] = "wait2"
            /\ queue # <<>>
            /\ Head(queue).kind = "SelectionNotify"
            /\ queue' = Tail(queue) )
          => IF Head(queue).property = AtomNone
             THEN pc'[t] = "done" /\ result'[t] = Err("ConversionFailed")
             ELSE pc'[t] = "probe" /\ result'[t] = NoResult
      ]_vars

\* the call goes on to the probe after a SelectionNotify that answers no
\* request and is about another selection and another target
C19_Witness ==
    \E t \in Threads :
        /\ pc[t] = "probe"
        /\ hist[t].reply.kind = "SelectionNotify"
        /\ hist[t].reply.req = 0
        /\ hist[t].reply.selection # InternAtom("CLIPBOARD")
        /\ hist[t].reply.target # InternAtom("UTF8_STRING")
        /\ hist[t].reply.time # clipboard_changed_event[t].time

==========================================================================
